---------------------------- MODULE Spec2Model ----------------------------
(***************************************************************************)
(* Model of syteline_reports/app.py: the remote data client query_ido, the *)
(* fallback dataset DUMMY_SALES, and the request handlers sales_report and *)
(* generic_query.                                                          *)
(*                                                                         *)
(* Text is modelled as a sequence of one-character strings, so that        *)
(* datetime.strptime, strftime, float() and str.split are computed on the  *)
(* characters as Python computes them.                                     *)
(***************************************************************************)
EXTENDS Integers, Sequences, FiniteSets, TLC

(***************************************************************************)
(* Characters and text helpers                                             *)
(***************************************************************************)
Digits == <<"0", "1", "2", "3", "4", "5", "6", "7", "8", "9">>

IsDigit(c) == \E i \in 1..10 : Digits[i] = c

DigitVal(c) == (CHOOSE i \in 1..10 : Digits[i] = c) - 1

DigitChar(n) == Digits[n + 1]

\* The decimal value of a text made of digits only.
RECURSIVE DigitsVal(_)
DigitsVal(s) ==
    IF s = <<>> THEN 0
    ELSE 10 * DigitsVal(SubSeq(s, 1, Len(s) - 1)) + DigitVal(s[Len(s)])

AllDigits(s) == \A i \in 1..Len(s) : IsDigit(s[i])

\* The index of the first character c of s at or after position i, 0 if none.
RECURSIVE IndexFrom(_, _, _)
IndexFrom(s, c, i) ==
    IF i > Len(s) THEN 0
    ELSE IF s[i] = c THEN i
    ELSE IndexFrom(s, c, i + 1)

(***************************************************************************)
(* Python values that reach the handlers.  Every value is a record of the  *)
(* same shape: t is its Python type, s its text, n its number.             *)
(***************************************************************************)
PyNone == [t |-> "NoneType", s |-> <<>>, n |-> 0]

PyStr(s) == [t |-> "str", s |-> s, n |-> 0]

PyNum(n) == [t |-> "float", s |-> <<>>, n |-> n]

\* A list of texts, as a Python value.
PyList(l) == [t |-> "list", s |-> l, n |-> 0]

\* bool(v): None, "", [] and 0 are false.
Truthy(v) ==
    CASE v.t = "NoneType" -> FALSE
      [] v.t \in {"str", "list"} -> v.s # <<>>
      [] OTHER -> v.n # 0

(***************************************************************************)
(* datetime.strptime(s, "%Y-%m-%d")                                        *)
(***************************************************************************)
\* _strptime's regex for %m: (1[0-2]|0[1-9]|[1-9])
MatchesMonth(s) ==
    \/ Len(s) = 2 /\ s[1] = "1" /\ s[2] \in {"0", "1", "2"}
    \/ Len(s) = 2 /\ s[1] = "0" /\ IsDigit(s[2]) /\ s[2] # "0"
    \/ Len(s) = 1 /\ IsDigit(s[1]) /\ s[1] # "0"

\* _strptime's regex for %d: (3[0-1]|[1-2]\d|0[1-9]|[1-9]| [1-9])
MatchesDay(s) ==
    \/ Len(s) = 2 /\ s[1] = "3" /\ s[2] \in {"0", "1"}
    \/ Len(s) = 2 /\ s[1] \in {"1", "2"} /\ IsDigit(s[2])
    \/ Len(s) = 2 /\ s[1] \in {"0", " "} /\ IsDigit(s[2]) /\ s[2] # "0"
    \/ Len(s) = 1 /\ IsDigit(s[1]) /\ s[1] # "0"

IsLeap(y) == (y % 4 = 0) /\ ((y % 100 # 0) \/ (y % 400 = 0))

DaysInMonth(y, m) ==
    IF m = 2 THEN (IF IsLeap(y) THEN 29 ELSE 28)
    ELSE IF m \in {4, 6, 9, 11} THEN 30
    ELSE 31

NoDate == [ok |-> FALSE, y |-> 0, m |-> 0, d |-> 0]

\* The value of a %d match: its digits, a leading blank dropped.
DayVal(s) == IF s[1] = " " THEN DigitVal(s[2]) ELSE DigitsVal(s)

\* strptime on a text: ok is FALSE where Python raises ValueError (the text
\* does not match the format, data remains unconverted, or the day is out of
\* range for the month).
Strptime(s) ==
    IF Len(s) < 8 \/ ~AllDigits(SubSeq(s, 1, 4)) \/ s[5] # "-" THEN NoDate
    ELSE LET j == IndexFrom(s, "-", 6)
         IN  IF j = 0 THEN NoDate
             ELSE LET ms == SubSeq(s, 6, j - 1)
                      ds == SubSeq(s, j + 1, Len(s))
                  IN  IF ~MatchesMonth(ms) \/ ~MatchesDay(ds) THEN NoDate
                      ELSE LET y == DigitsVal(SubSeq(s, 1, 4))
                               m == DigitsVal(ms)
                               d == DayVal(ds)
                           IN  IF y < 1 \/ d > DaysInMonth(y, m) THEN NoDate
                               ELSE [ok |-> TRUE, y |-> y, m |-> m, d |-> d]

\* strptime on a Python value: a non-str argument raises TypeError.
StrptimeValue(v) == IF v.t = "str" THEN Strptime(v.s) ELSE NoDate

\* date1 <= date2
DateLE(a, b) ==
    (a.y * 10000 + a.m * 100 + a.d) <= (b.y * 10000 + b.m * 100 + b.d)

(***************************************************************************)
(* strftime                                                                *)
(***************************************************************************)
Pad2(n) == <<DigitChar(n \div 10), DigitChar(n % 10)>>

Pad4(n) == <<DigitChar(n \div 1000), DigitChar((n \div 100) % 10),
             DigitChar((n \div 10) % 10), DigitChar(n % 10)>>

\* dt.strftime("%Y-%m-%d"), dt.strftime("%Y-%m"), dt.strftime("%Y")
StrftimeDay(dt) == Pad4(dt.y) \o <<"-">> \o Pad2(dt.m) \o <<"-">> \o Pad2(dt.d)

StrftimeMonth(dt) == Pad4(dt.y) \o <<"-">> \o Pad2(dt.m)

StrftimeYear(dt) == Pad4(dt.y)

(***************************************************************************)
(* Requests made through requests.get and the responses it can produce     *)
(***************************************************************************)
\* A text literal of the program is kept as one element of the text.
Lit(str) == <<str>>

\* s.rstrip('/')
RECURSIVE RstripSlash(_)
RstripSlash(s) ==
    IF s # <<>> /\ s[Len(s)] = "/" THEN RstripSlash(SubSeq(s, 1, Len(s) - 1))
    ELSE s

\* ",".join(l)
RECURSIVE JoinComma(_)
JoinComma(l) ==
    IF l = <<>> THEN <<>>
    ELSE IF Len(l) = 1 THEN l[1]
    ELSE l[1] \o <<",">> \o JoinComma(Tail(l))

\* A mapping with the entry k: v added when cond holds.
WithEntry(map, cond, k, v) == IF cond THEN (k :> v) @@ map ELSE map

\* The GET that query_ido builds: url, params and headers.
BuildRequest(base, config, token, ido, properties, filter_expr, order_by, record_cap) ==
    [url |-> RstripSlash(base.s) \o Lit("/ido/") \o ido \o Lit("/load"),
     params |->
        WithEntry(
          WithEntry(
            WithEntry("recordCap" :> PyNum(record_cap),
                      Truthy(order_by), "orderBy", order_by),
            Truthy(filter_expr), "filter", filter_expr),
          Truthy(properties), "properties", PyStr(JoinComma(properties.s))),
     headers |-> [Authorization |-> Lit("Mongoose ") \o token.s,
                  XInforMongooseConfig |-> config.s],
     timeout |-> 30]

\* JSON values.  v holds the elements of a list or the characters of a
\* string, n a number or the number of keys of an object.
JVal(t, v, n) == [t |-> t, v |-> v, n |-> n]

JNull == JVal("NoneType", <<>>, 0)

\* bool(j)
JTruthy(j) ==
    CASE j.t = "NoneType" -> FALSE
      [] j.t \in {"list", "str"} -> j.v # <<>>
      [] OTHER -> j.n # 0

\* A decoded JSON body: a value, and for an object whether it has the key
\* "items" and the value under it.
Body(t, v, n, hasItems, items) ==
    [t |-> t, v |-> v, n |-> n, hasItems |-> hasItems, items |-> items]

ItemsBody(L) == Body("dict", <<>>, 1, TRUE, JVal("list", L, 0))

ListBody(L) == Body("list", L, 0, FALSE, JNull)

\* What one GET can end in: requests.get raising, raise_for_status raising,
\* resp.json() raising, or a decoded body.
Response(kind, body) == [kind |-> kind, body |-> body]

NoResponse == Response("none", ListBody(<<>>))

\* ParseResponse without resp.raise_for_status(): the body of a 4xx or 5xx
\* answer is read like any other.
ParseResponseNoStatusCheck(resp) ==
    IF resp.kind \notin {"json", "http_error"} THEN <<>>
    ELSE LET data == resp.body
         IN  IF data.t # "dict" THEN <<>>
             ELSE LET got == IF data.hasItems THEN data.items ELSE JNull
                      items == IF JTruthy(got) THEN [t |-> got.t, v |-> got.v]
                               ELSE [t |-> data.t, v |-> data.v]
                  IN  IF items.t = "list" THEN items.v ELSE <<>>

\* Lines 116-128 of query_ido: the list returned for a response.  Every
\* exception raised inside the try block ends in "return []".
ParseResponse(resp) ==
    IF resp.kind # "json"
    THEN <<>>          \* requests.get, raise_for_status or resp.json() raised
    ELSE LET data == resp.body
         IN  IF data.t # "dict"
             THEN <<>>  \* data.get: only a dict has the attribute get
             ELSE LET got == IF data.hasItems THEN data.items ELSE JNull
                      \* items = data.get("items") or data
                      items == IF JTruthy(got) THEN [t |-> got.t, v |-> got.v]
                               ELSE [t |-> data.t, v |-> data.v]
                  IN  IF items.t = "list" THEN items.v ELSE <<>>

\* query_ido with "or" for "and" in line 93: one configuration value is
\* enough to go on to the GET.
QueryIdoAnyConfig(base, config, token, ido, properties, filter_expr, order_by, record_cap, resp) ==
    IF ~(Truthy(base) \/ Truthy(config) \/ Truthy(token))
    THEN [ret |-> <<>>, gets |-> <<>>]
    ELSE [ret |-> ParseResponse(resp),
          gets |-> <<BuildRequest(base, config, token, ido, properties,
                                  filter_expr, order_by, record_cap)>>]

\* query_ido: the list it returns and the GETs it issues.
QueryIdo(base, config, token, ido, properties, filter_expr, order_by, record_cap, resp) ==
    IF ~(Truthy(base) /\ Truthy(config) /\ Truthy(token))
    THEN [ret |-> <<>>, gets |-> <<>>]
    ELSE [ret |-> ParseResponse(resp),
          gets |-> <<BuildRequest(base, config, token, ido, properties,
                                  filter_expr, order_by, record_cap)>>]

(***************************************************************************)
(* Records and the fallback dataset                                        *)
(***************************************************************************)
\* The value of a key a dict does not have.
Missing == [t |-> "missing", s |-> <<>>, n |-> 0]

Row(trans, inv, type, amount, cust, item) ==
    [TransDate |-> trans, InvoiceDate |-> inv, Type |-> type,
     Amount |-> amount, CustNum |-> cust, Item |-> item]

D_2026_01_01 == <<"2", "0", "2", "6", "-", "0", "1", "-", "0", "1">>

D_2026_01_02 == <<"2", "0", "2", "6", "-", "0", "1", "-", "0", "2">>

D_2026_01_05 == <<"2", "0", "2", "6", "-", "0", "1", "-", "0", "5">>

D_2026_02_01 == <<"2", "0", "2", "6", "-", "0", "2", "-", "0", "1">>

DummyRow(trans, type, amount, cust, item) ==
    Row(PyStr(trans), Missing, PyStr(Lit(type)), PyNum(amount),
        PyStr(Lit(cust)), PyStr(Lit(item)))

\* The literal DUMMY_SALES is bound to.
DummySalesLiteral ==
    << DummyRow(D_2026_01_01, "Product", 1200, "C0001", "A100"),
       DummyRow(D_2026_01_01, "Service", 250, "C0002", "SV01"),
       DummyRow(D_2026_01_02, "Freight", 75, "C0003", "FR01"),
       DummyRow(D_2026_01_02, "Misc", 50, "C0001", "MISC"),
       DummyRow(D_2026_01_05, "Product", 800, "C0002", "A200"),
       DummyRow(D_2026_02_01, "Service", 300, "C0003", "SV02") >>

(***************************************************************************)
(* The steps of sales_report on values                                     *)
(***************************************************************************)
\* FallbackFilter with the test of line 186 cut to start_dt <= date.
FallbackFilterLowerOnly(dummy, sdt, edt) ==
    [exc |-> "",
     rows |-> SelectSeq(dummy,
                LAMBDA row : DateLE(sdt, StrptimeValue(row.TransDate)))]

\* Lines 185-186: the rows of the fallback dataset inside [start_dt, end_dt].
\* exc names the exception strptime raises on a row's TransDate, "" if none.
FallbackFilter(dummy, sdt, edt) ==
    IF \E i \in 1..Len(dummy) : ~StrptimeValue(dummy[i].TransDate).ok
    THEN [exc |-> "ValueError", rows |-> <<>>]
    ELSE [exc |-> "",
          rows |-> SelectSeq(dummy,
                     LAMBDA row : /\ DateLE(sdt, StrptimeValue(row.TransDate))
                                  /\ DateLE(StrptimeValue(row.TransDate), edt))]

\* Lines 191-195 for one row.  JSON decoding yields no datetime instance, so
\* the strftime of line 195 never applies.
NormalizeRow(row) ==
    IF row.InvoiceDate.t # "missing"
    THEN [row EXCEPT !.TransDate = row.InvoiceDate, !.InvoiceDate = Missing]
    ELSE row

\* Lines 189-195.
NormalizeRows(rows) == [i \in 1..Len(rows) |-> NormalizeRow(rows[i])]

\* float(v) for None, a number, or a str of decimal digits or of letters.
FloatOf(v) ==
    CASE v.t = "float" -> [exc |-> "", n |-> v.n]
      [] v.t = "str" /\ v.s # <<>> /\ AllDigits(v.s) ->
              [exc |-> "", n |-> DigitsVal(v.s)]
      [] v.t = "str" -> [exc |-> "ValueError", n |-> 0]
      [] OTHER -> [exc |-> "TypeError", n |-> 0]

\* row.get("Amount", 0)
GetAmount(row) == IF row.Amount.t = "missing" THEN PyNum(0) ELSE row.Amount

\* Lines 205-210.
GroupKey(dt, group_by) ==
    IF group_by = "day" THEN StrftimeDay(dt)
    ELSE IF group_by = "month" THEN StrftimeMonth(dt)
    ELSE StrftimeYear(dt)

EmptySummary == [k \in {} |-> 0]

\* SummaryGet that forgets what the bucket holds: line 211 with = for +=.
SummaryGetZero(summary, key) == 0

\* summary.get(key, 0.0)
SummaryGet(summary, key) == IF key \in DOMAIN summary THEN summary[key] ELSE 0

\* summary[key] = val
SummaryPut(summary, key, val) ==
    [k \in DOMAIN summary \cup {key} |-> IF k = key THEN val ELSE summary[k]]

\* GroupFrom without the try/except of lines 201-204: a row whose date does
\* not parse ends the loop with the exception.
RECURSIVE GroupFromRaiseOnBadDate(_, _, _, _)
GroupFromRaiseOnBadDate(summary, rows, i, group_by) ==
    IF i > Len(rows) THEN [exc |-> "", summary |-> summary]
    ELSE LET row == rows[i]
             dt == IF row.TransDate.t = "missing" THEN NoDate
                   ELSE StrptimeValue(row.TransDate)
         IN  IF ~dt.ok
             THEN [exc |-> "ValueError", summary |-> summary]
             ELSE LET key == GroupKey(dt, group_by)
                      amount == FloatOf(GetAmount(row))
                  IN  IF amount.exc # ""
                      THEN [exc |-> amount.exc, summary |-> summary]
                      ELSE GroupFromRaiseOnBadDate(
                             SummaryPut(summary, key,
                                        SummaryGet(summary, key) + amount.n),
                             rows, i + 1, group_by)

\* Lines 199-211: the loop from row i on.  exc names the exception that
\* leaves the loop, "" if it runs to its end.
RECURSIVE GroupFrom(_, _, _, _)
GroupFrom(summary, rows, i, group_by) ==
    IF i > Len(rows) THEN [exc |-> "", summary |-> summary]
    ELSE LET row == rows[i]
             \* row["TransDate"] on a missing key raises KeyError
             dt == IF row.TransDate.t = "missing" THEN NoDate
                   ELSE StrptimeValue(row.TransDate)
         IN  IF ~dt.ok
             THEN GroupFrom(summary, rows, i + 1, group_by)  \* continue
             ELSE LET key == GroupKey(dt, group_by)
                      amount == FloatOf(GetAmount(row))
                  IN  IF amount.exc # ""
                      THEN [exc |-> amount.exc, summary |-> summary]
                      ELSE GroupFrom(
                             SummaryPut(summary, key,
                                        SummaryGet(summary, key) + amount.n),
                             rows, i + 1, group_by)

\* Lines 198-211.
GroupRows(rows, group_by) == GroupFrom(EmptySummary, rows, 1, group_by)

(***************************************************************************)
(* Template contexts: what a request ends in                               *)
(***************************************************************************)
\* templates.TemplateResponse("results.html", ...): keys are the context keys
\* given besides request, none those among them whose value is None.
Rendered(keys, none, sales_summary, items, error) ==
    [kind |-> "rendered", keys |-> keys, none |-> none,
     sales_summary |-> sales_summary, items |-> items, error |-> error,
     exc |-> ""]

\* The handler left by an exception nothing catches.
Raised(exc) ==
    [kind |-> "exception", keys |-> {}, none |-> {},
     sales_summary |-> EmptySummary, items |-> <<>>, error |-> "",
     exc |-> exc]

NoResult ==
    [kind |-> "none", keys |-> {}, none |-> {},
     sales_summary |-> EmptySummary, items |-> <<>>, error |-> "", exc |-> ""]

\* Lines 169-173.
InvalidDateResponse ==
    Rendered({"sales_summary", "error"}, {}, EmptySummary, <<>>,
             "Invalid date format. Please use YYYY-MM-DD.")

\* Lines 213-218.
SummaryResponse(summary) ==
    Rendered({"sales_summary", "items", "error"}, {"items", "error"},
             summary, <<>>, "")

\* Lines 239-244.
ItemsResponse(results) ==
    Rendered({"sales_summary", "items", "error"}, {"sales_summary", "error"},
             EmptySummary, results, "")

(***************************************************************************)
(* Arguments the handlers pass to query_ido                                *)
(***************************************************************************)
\* Lines 177-179.
SalesIdoName == Lit("SLPostedInvoices")

SalesProperties ==
    PyList(<<Lit("InvoiceDate"), Lit("Type"), Lit("Amount"), Lit("CustNum")>>)

SalesFilter(start_date, end_date) ==
    PyStr(Lit("InvoiceDate>='") \o start_date \o Lit("' AND InvoiceDate<='")
          \o end_date \o Lit("'"))

\* s.strip(), blanks being the only whitespace of the texts modelled.
RECURSIVE Lstrip(_)
Lstrip(s) == IF s # <<>> /\ s[1] = " " THEN Lstrip(Tail(s)) ELSE s

RECURSIVE Rstrip(_)
Rstrip(s) ==
    IF s # <<>> /\ s[Len(s)] = " " THEN Rstrip(SubSeq(s, 1, Len(s) - 1)) ELSE s

Strip(s) == Lstrip(Rstrip(s))

\* s.split(",")
RECURSIVE SplitComma(_)
SplitComma(s) ==
    LET j == IndexFrom(s, ",", 1)
    IN  IF j = 0 THEN <<s>>
        ELSE <<SubSeq(s, 1, j - 1)>> \o SplitComma(SubSeq(s, j + 1, Len(s)))

\* Line 233: [p.strip() for p in properties.split(",") if p.strip()]
PropList(properties) ==
    LET parts == SplitComma(properties)
        kept == SelectSeq(parts, LAMBDA q : Strip(q) # <<>>)
    IN  [i \in 1..Len(kept) |-> Strip(kept[i])]

\* x if x else None
OrNone(v) == IF Truthy(v) THEN v ELSE PyNone

(***************************************************************************)
(* The handlers as functions of their inputs and of the response the       *)
(* remote gives: what a request computes when it runs from start to end    *)
(* with the configuration base, config, token and the fallback rows dummy. *)
(***************************************************************************)
SalesReport(base, config, token, dummy, start_date, end_date, group_by, resp) ==
    LET sdt == Strptime(start_date)
        edt == Strptime(end_date)
    IN  IF ~sdt.ok \/ ~edt.ok THEN InvalidDateResponse
        ELSE LET q == QueryIdo(base, config, token, SalesIdoName,
                               SalesProperties,
                               SalesFilter(start_date, end_date), PyNone, 0,
                               resp)
                 fb == FallbackFilter(dummy, sdt, edt)
                 rows == IF q.ret = <<>> THEN fb.rows ELSE NormalizeRows(q.ret)
                 g == GroupRows(rows, group_by)
             IN  IF q.ret = <<>> /\ fb.exc # "" THEN Raised(fb.exc)
                 ELSE IF g.exc # "" THEN Raised(g.exc)
                 ELSE SummaryResponse(g.summary)

GenericQueryResult(base, config, token, ido, properties, filter_expr, order_by, resp) ==
    LET prop_list == PropList(properties)
    IN  ItemsResponse(
          QueryIdo(base, config, token, ido, OrNone(PyList(prop_list)),
                   OrNone(PyStr(filter_expr)), OrNone(PyStr(order_by)), 0,
                   resp).ret)

(***************************************************************************)
(* State                                                                   *)
(***************************************************************************)
VARIABLES
    environ,          \* os.environ: the three SYTELINE_ variables
    BASE_URL,         \* module globals of lines 59-61
    MONGOOSE_CONFIG,
    API_TOKEN,
    DUMMY_SALES,      \* module global of line 134
    pc,               \* where each request is
    form,             \* the form fields each request came with
    start_dt,         \* locals of sales_report
    end_dt,
    records,
    returned,         \* what the request's call of query_ido returned
    gets,             \* the GETs each request has issued
    response,         \* what the request's GET ended in
    result            \* what each request ended in

vars == <<environ, BASE_URL, MONGOOSE_CONFIG, API_TOKEN, DUMMY_SALES, pc, form,
          start_dt, end_dt, records, returned, gets, response, result>>

globals == <<environ, BASE_URL, MONGOOSE_CONFIG, API_TOKEN>>

\* Requests that can be in flight at once.
NumRequests == 2

Requests == 1..NumRequests

NoForm ==
    [handler |-> "none", start_date |-> <<>>, end_date |-> <<>>,
     group_by |-> "", ido |-> <<>>, properties |-> <<>>, filter_expr |-> <<>>,
     order_by |-> <<>>]

SalesForm(start_date, end_date, group_by) ==
    [NoForm EXCEPT !.handler = "sales_report", !.start_date = start_date,
                   !.end_date = end_date, !.group_by = group_by]

QueryForm(ido, properties, filter_expr, order_by) ==
    [NoForm EXCEPT !.handler = "generic_query", !.ido = ido,
                   !.properties = properties, !.filter_expr = filter_expr,
                   !.order_by = order_by]

\* Values an environment variable can have: unset, empty, set.
SetValue == PyStr(<<"h", "/">>)

EnvValues == {PyNone, PyStr(<<>>), SetValue}

\* query_ido not called yet, and called with the list ret returned.
NotCalled == [called |-> FALSE, ret |-> <<>>]

Called(ret) == [called |-> TRUE, ret |-> ret]

\* The process after import, started in the environment env.
InitIn(env) ==
    /\ environ = env
    /\ BASE_URL = environ.SYTELINE_BASE_URL          \* os.getenv, lines 59-61
    /\ MONGOOSE_CONFIG = environ.SYTELINE_CONFIG
    /\ API_TOKEN = environ.SYTELINE_TOKEN
    /\ DUMMY_SALES = DummySalesLiteral
    /\ pc = [r \in Requests |-> "idle"]
    /\ form = [r \in Requests |-> NoForm]
    /\ start_dt = [r \in Requests |-> NoDate]
    /\ end_dt = [r \in Requests |-> NoDate]
    /\ records = [r \in Requests |-> <<>>]
    /\ returned = [r \in Requests |-> NotCalled]
    /\ gets = [r \in Requests |-> <<>>]
    /\ response = [r \in Requests |-> NoResponse]
    /\ result = [r \in Requests |-> NoResult]

Environments ==
    [SYTELINE_BASE_URL : EnvValues, SYTELINE_CONFIG : EnvValues,
     SYTELINE_TOKEN : EnvValues]

Init == \E env \in Environments : InitIn(env)

\* Line 93 lets the call through.
Configured == Truthy(BASE_URL) /\ Truthy(MONGOOSE_CONFIG) /\ Truthy(API_TOKEN)

(***************************************************************************)
(* Actions                                                                 *)
(***************************************************************************)
\* POST /sales_report arrives with its three form fields.
SalesReportRequest(r, start_date, end_date, group_by) ==
    /\ pc[r] = "idle"
    /\ pc' = [pc EXCEPT ![r] = "parse"]
    /\ form' = [form EXCEPT ![r] = SalesForm(start_date, end_date, group_by)]
    /\ UNCHANGED <<globals, DUMMY_SALES, start_dt, end_dt, records, returned,
                   gets, response, result>>

\* SalesReportParse with end_date left out of the try block's check.
SalesReportParseStartOnly(r) ==
    /\ pc[r] = "parse"
    /\ LET sdt == Strptime(form[r].start_date)
           edt == Strptime(form[r].end_date)
       IN  IF ~sdt.ok
           THEN /\ result' = [result EXCEPT ![r] = InvalidDateResponse]
                /\ pc' = [pc EXCEPT ![r] = "done"]
                /\ UNCHANGED <<start_dt, end_dt>>
           ELSE /\ start_dt' = [start_dt EXCEPT ![r] = sdt]
                /\ end_dt' = [end_dt EXCEPT ![r] = edt]
                /\ pc' = [pc EXCEPT ![r] = "query"]
                /\ UNCHANGED result
    /\ UNCHANGED <<globals, DUMMY_SALES, form, records, returned, gets,
                   response>>

\* Lines 165-173.
SalesReportParse(r) ==
    /\ pc[r] = "parse"
    /\ LET sdt == Strptime(form[r].start_date)
           edt == Strptime(form[r].end_date)
       IN  IF ~sdt.ok \/ ~edt.ok
           THEN /\ result' = [result EXCEPT ![r] = InvalidDateResponse]
                /\ pc' = [pc EXCEPT ![r] = "done"]
                /\ UNCHANGED <<start_dt, end_dt>>
           ELSE /\ start_dt' = [start_dt EXCEPT ![r] = sdt]
                /\ end_dt' = [end_dt EXCEPT ![r] = edt]
                /\ pc' = [pc EXCEPT ![r] = "query"]
                /\ UNCHANGED result
    /\ UNCHANGED <<globals, DUMMY_SALES, form, records, returned, gets,
                   response>>

\* Lines 177-180: the call of query_ido, resp being what its GET ends in.
SalesReportQuery(r, resp) ==
    /\ pc[r] = "query"
    /\ LET q == QueryIdo(BASE_URL, MONGOOSE_CONFIG, API_TOKEN, SalesIdoName,
                         SalesProperties,
                         SalesFilter(form[r].start_date, form[r].end_date),
                         PyNone, 0, resp)
       IN  /\ records' = [records EXCEPT ![r] = q.ret]
           /\ returned' = [returned EXCEPT ![r] = Called(q.ret)]
           /\ gets' = [gets EXCEPT ![r] = gets[r] \o q.gets]
           /\ response' = [response EXCEPT
                             ![r] = IF q.gets = <<>> THEN NoResponse ELSE resp]
    /\ pc' = [pc EXCEPT ![r] = "select"]
    /\ UNCHANGED <<globals, DUMMY_SALES, form, start_dt, end_dt, result>>

\* SalesReportSelect that applies the date filter to the remote rows too.
SalesReportSelectRefilter(r) ==
    /\ pc[r] = "select"
    /\ LET rows == IF records[r] = <<>> THEN DUMMY_SALES
                   ELSE NormalizeRows(records[r])
           inRange(row) ==
               /\ StrptimeValue(row.TransDate).ok
               /\ DateLE(start_dt[r], StrptimeValue(row.TransDate))
               /\ DateLE(StrptimeValue(row.TransDate), end_dt[r])
       IN  records' = [records EXCEPT ![r] = SelectSeq(rows, inRange)]
    /\ pc' = [pc EXCEPT ![r] = "group"]
    /\ UNCHANGED <<globals, DUMMY_SALES, form, start_dt, end_dt, returned,
                   gets, response, result>>

\* SalesReportSelect that filters the fallback dataset in place
\* (DUMMY_SALES[:] = ...) instead of building a new list.
SalesReportSelectInPlace(r) ==
    /\ pc[r] = "select"
    /\ IF records[r] = <<>>
       THEN LET fb == FallbackFilter(DUMMY_SALES, start_dt[r], end_dt[r])
            IN  /\ DUMMY_SALES' = fb.rows
                /\ records' = [records EXCEPT ![r] = fb.rows]
       ELSE /\ records' = [records EXCEPT ![r] = NormalizeRows(records[r])]
            /\ UNCHANGED DUMMY_SALES
    /\ pc' = [pc EXCEPT ![r] = "group"]
    /\ UNCHANGED <<globals, form, start_dt, end_dt, returned, gets, response,
                   result>>

\* Lines 182-195: the fallback rows in range, or the remote rows renamed.
SalesReportSelect(r) ==
    /\ pc[r] = "select"
    /\ IF records[r] = <<>>
       THEN LET fb == FallbackFilter(DUMMY_SALES, start_dt[r], end_dt[r])
            IN  IF fb.exc # ""
                THEN /\ result' = [result EXCEPT ![r] = Raised(fb.exc)]
                     /\ pc' = [pc EXCEPT ![r] = "done"]
                     /\ UNCHANGED records
                ELSE /\ records' = [records EXCEPT ![r] = fb.rows]
                     /\ pc' = [pc EXCEPT ![r] = "group"]
                     /\ UNCHANGED result
       ELSE /\ records' = [records EXCEPT ![r] = NormalizeRows(records[r])]
            /\ pc' = [pc EXCEPT ![r] = "group"]
            /\ UNCHANGED result
    /\ UNCHANGED <<globals, DUMMY_SALES, form, start_dt, end_dt, returned,
                   gets, response>>

\* Lines 198-218.
SalesReportGroup(r) ==
    /\ pc[r] = "group"
    /\ LET g == GroupRows(records[r], form[r].group_by)
       IN  result' = [result EXCEPT
                        ![r] = IF g.exc # "" THEN Raised(g.exc)
                               ELSE SummaryResponse(g.summary)]
    /\ pc' = [pc EXCEPT ![r] = "done"]
    /\ UNCHANGED <<globals, DUMMY_SALES, form, start_dt, end_dt, records,
                   returned, gets, response>>

\* POST /query arrives with its four form fields.
GenericQueryRequest(r, ido, properties, filter_expr, order_by) ==
    /\ pc[r] = "idle"
    /\ pc' = [pc EXCEPT ![r] = "generic_query"]
    /\ form' = [form EXCEPT
                  ![r] = QueryForm(ido, properties, filter_expr, order_by)]
    /\ UNCHANGED <<globals, DUMMY_SALES, start_dt, end_dt, records, returned,
                   gets, response, result>>

\* Lines 233-244.
GenericQuery(r, resp) ==
    /\ pc[r] = "generic_query"
    /\ LET prop_list == PropList(form[r].properties)
           q == QueryIdo(BASE_URL, MONGOOSE_CONFIG, API_TOKEN, form[r].ido,
                         OrNone(PyList(prop_list)),
                         OrNone(PyStr(form[r].filter_expr)),
                         OrNone(PyStr(form[r].order_by)), 0, resp)
       IN  /\ returned' = [returned EXCEPT ![r] = Called(q.ret)]
           /\ gets' = [gets EXCEPT ![r] = gets[r] \o q.gets]
           /\ response' = [response EXCEPT
                             ![r] = IF q.gets = <<>> THEN NoResponse ELSE resp]
           /\ result' = [result EXCEPT ![r] = ItemsResponse(q.ret)]
    /\ pc' = [pc EXCEPT ![r] = "done"]
    /\ UNCHANGED <<globals, DUMMY_SALES, form, start_dt, end_dt, records>>

\* The response is sent and the request's locals are gone.
Respond(r) ==
    /\ pc[r] = "done"
    /\ pc' = [pc EXCEPT ![r] = "idle"]
    /\ form' = [form EXCEPT ![r] = NoForm]
    /\ start_dt' = [start_dt EXCEPT ![r] = NoDate]
    /\ end_dt' = [end_dt EXCEPT ![r] = NoDate]
    /\ records' = [records EXCEPT ![r] = <<>>]
    /\ returned' = [returned EXCEPT ![r] = NotCalled]
    /\ gets' = [gets EXCEPT ![r] = <<>>]
    /\ response' = [response EXCEPT ![r] = NoResponse]
    /\ result' = [result EXCEPT ![r] = NoResult]
    /\ UNCHANGED <<globals, DUMMY_SALES>>

(***************************************************************************)
(* Inputs                                                                  *)
(***************************************************************************)
D_2026_1_5 == <<"2", "0", "2", "6", "-", "1", "-", "5">>

D_2026_02_30 == <<"2", "0", "2", "6", "-", "0", "2", "-", "3", "0">>

D_2026_3_15 == <<"2", "0", "2", "6", "-", "3", "-", "1", "5">>

D_13_40_2026 == <<"1", "3", "/", "4", "0", "/", "2", "0", "2", "6">>

D_Timestamp == D_2026_01_01 \o <<"T", "0", "0", ":", "0", "0", ":", "0", "0">>

\* Form values for start_date and end_date: padded, unpadded, a day that
\* does not exist, another format.
DateInputs ==
    {D_2026_01_01, D_2026_01_02, D_2026_02_01, D_2026_1_5, D_2026_02_30,
     D_13_40_2026}

\* "week" stands for every value other than "day" and "month".
GroupByInputs == {"day", "month", "week"}

RemoteRow(inv, amount) ==
    Row(Missing, inv, PyStr(Lit("Product")), amount, PyStr(Lit("C0001")),
        Missing)

\* Records the remote can return.
RemoteRows ==
    { RemoteRow(PyStr(D_2026_01_01), PyNum(100)),
      RemoteRow(PyStr(D_2026_3_15), PyStr(<<"4", "0">>)),
      RemoteRow(PyStr(D_2026_01_02), Missing),
      RemoteRow(PyStr(D_2026_01_01), PyNone),
      RemoteRow(PyStr(D_2026_01_02), PyStr(<<"a", "b", "c">>)),
      RemoteRow(Missing, PyStr(<<"a", "b", "c">>)),
      RemoteRow(PyStr(D_Timestamp), PyNone) }

\* The longest record list a response carries.
MaxRecords == 2

RECURSIVE ListsUpTo(_, _)
ListsUpTo(S, n) ==
    IF n = 0 THEN {<<>>}
    ELSE LET shorter == ListsUpTo(S, n - 1)
         IN  shorter \cup {Append(l, x) : l \in shorter, x \in S}

RecordLists == ListsUpTo(RemoteRows, MaxRecords)

\* Decoded bodies that are neither an object with a list under "items" nor a
\* list.
OtherBodies ==
    { Body("dict", <<>>, 1, FALSE, JNull),
      Body("dict", <<>>, 1, TRUE, JNull),
      Body("dict", <<>>, 1, TRUE, JVal("str", <<"x">>, 0)),
      Body("dict", <<>>, 1, TRUE, JVal("float", <<>>, 5)),
      Body("dict", <<>>, 1, TRUE, JVal("dict", <<>>, 1)),
      Body("float", <<>>, 5, FALSE, JNull),
      Body("str", <<"x">>, 0, FALSE, JNull),
      Body("NoneType", <<>>, 0, FALSE, JNull) }

\* A GET that ends in an exception: requests.get raising, a 4xx or 5xx
\* answer (whose body raise_for_status keeps from being read), a body that
\* is not JSON.
FailedResponses ==
    { Response("transport_error", ListBody(<<>>)),
      Response("http_error",
               ItemsBody(<<RemoteRow(PyStr(D_2026_01_01), PyNum(100))>>)),
      Response("bad_json", ListBody(<<>>)) }

Responses ==
    FailedResponses
    \cup {Response("json", ItemsBody(L)) : L \in RecordLists}
    \cup {Response("json", ListBody(L)) : L \in RecordLists}
    \cup {Response("json", b) : b \in OtherBodies}

\* Form values of POST /query.
IdoInputs == {Lit("SLCustomers")}

PropertiesInputs ==
    {<<>>, <<"CustNum", ",", " ", "Name", " ">>, <<" ", ",", " ">>}

FilterInputs == {<<>>, Lit("CustNum='C000001'")}

OrderByInputs == {<<>>, Lit("CustNum DESC")}

\* The remote answers only a process that is configured to call it.
RemoteAnswers(S) == IF Configured THEN S ELSE {NoResponse}

(***************************************************************************)
(* One request at a time, every input                                      *)
(***************************************************************************)
Next ==
    \E r \in {1} :
        \/ /\ pc[r] = "idle"
           /\ \E sd \in DateInputs, ed \in DateInputs, gb \in GroupByInputs :
                  SalesReportRequest(r, sd, ed, gb)
        \/ SalesReportParse(r)
        \/ /\ pc[r] = "query"
           /\ \E resp \in RemoteAnswers(Responses) : SalesReportQuery(r, resp)
        \/ SalesReportSelect(r)
        \/ SalesReportGroup(r)
        \/ /\ pc[r] = "idle"
           /\ \E ido \in IdoInputs, pr \in PropertiesInputs,
                 fe \in FilterInputs, ob \in OrderByInputs :
                  GenericQueryRequest(r, ido, pr, fe, ob)
        \/ /\ pc[r] = "generic_query"
           /\ \E resp \in RemoteAnswers(Responses) : GenericQuery(r, resp)
        \/ Respond(r)

Spec == Init /\ [][Next]_vars

(***************************************************************************)
(* Requests in flight together, their steps interleaved                    *)
(***************************************************************************)
ConcDateInputs == {D_2026_01_02, D_2026_02_01}

ConcEnvironments ==
    { [SYTELINE_BASE_URL |-> SetValue, SYTELINE_CONFIG |-> SetValue,
       SYTELINE_TOKEN |-> tok] : tok \in {SetValue, PyNone} }

InitConc == \E env \in ConcEnvironments : InitIn(env)

ConcResponses ==
    { Response("transport_error", ListBody(<<>>)),
      Response("json", ItemsBody(<<RemoteRow(PyStr(D_2026_01_01), PyNum(100)),
                                   RemoteRow(PyStr(D_2026_3_15), PyStr(<<"4", "0">>))>>)) }

NextConc ==
    \E r \in Requests :
        \/ /\ pc[r] = "idle"
           /\ \E sd \in ConcDateInputs, ed \in ConcDateInputs :
                  SalesReportRequest(r, sd, ed, "month")
        \/ SalesReportParse(r)
        \/ /\ pc[r] = "query"
           /\ \E resp \in RemoteAnswers(ConcResponses) :
                  SalesReportQuery(r, resp)
        \/ SalesReportSelect(r)
        \/ SalesReportGroup(r)
        \/ GenericQueryRequest(r, Lit("SLCustomers"), <<>>, <<>>, <<>>)
        \/ /\ pc[r] = "generic_query"
           /\ \E resp \in RemoteAnswers(ConcResponses) : GenericQuery(r, resp)
        \/ Respond(r)

SpecConc == InitConc /\ [][NextConc]_vars

(***************************************************************************)
(* Properties                                                              *)
(***************************************************************************)
\* An environment variable that is unset or set to the empty string.
AbsentOrEmpty(v) == v = PyNone \/ v = PyStr(<<>>)

AllConfigPresent ==
    /\ ~AbsentOrEmpty(environ.SYTELINE_BASE_URL)
    /\ ~AbsentOrEmpty(environ.SYTELINE_CONFIG)
    /\ ~AbsentOrEmpty(environ.SYTELINE_TOKEN)

\* The body is an object with a list under "items".
IsItemsShape(b) == b.t = "dict" /\ b.hasItems /\ b.items.t = "list"

\* The body is a list.
IsListShape(b) == b.t = "list"

\* C1: with the configuration present and a successful response, query_ido
\* returns the record list L both for the body {"items": L} and for the
\* bare list L.
C1_ItemsAndBareListAgree ==
    \A r \in Requests :
        (returned[r].called /\ AllConfigPresent /\ response[r].kind = "json")
        => /\ IsItemsShape(response[r].body)
                => returned[r].ret = response[r].body.items.v
           /\ IsListShape(response[r].body)
                => returned[r].ret = response[r].body.v

\* C2: when one of the three configuration values is absent or empty,
\* query_ido returns the empty list, whatever its arguments, and issues no
\* HTTP request.
C2_MissingConfigNoRequest ==
    \A r \in Requests :
        (returned[r].called /\ ~AllConfigPresent)
        => /\ returned[r].ret = <<>>
           /\ gets[r] = <<>>
           /\ response[r] = NoResponse

\* query_ido has returned to a generic_query that passed properties, a
\* filter and an order, in a process whose token alone is the empty string.
C2_Witness ==
    \E r \in Requests :
        /\ returned[r].called
        /\ form[r].handler = "generic_query"
        /\ PropList(form[r].properties) # <<>>
        /\ form[r].filter_expr # <<>>
        /\ form[r].order_by # <<>>
        /\ environ.SYTELINE_BASE_URL = SetValue
        /\ environ.SYTELINE_CONFIG = SetValue
        /\ environ.SYTELINE_TOKEN = PyStr(<<>>)
        /\ returned[r].ret = <<>>
        /\ gets[r] = <<>>

\* C3: with the configuration present, a call of query_ido issues exactly
\* one GET and returns a list; after a transport error, a non-success
\* status, a body that is not JSON, or a decoded body that is neither an
\* object with a list under items nor a list, that list is empty.
C3_OneGetAndEmptyOnFailure ==
    \A r \in Requests :
        (returned[r].called /\ AllConfigPresent)
        => /\ Len(gets[r]) = 1
           /\ returned[r].ret \in Seq(RemoteRows)
           /\ response[r].kind \in {"transport_error", "http_error", "bad_json"}
                => returned[r].ret = <<>>
           /\ (/\ response[r].kind = "json"
               /\ ~IsItemsShape(response[r].body)
               /\ ~IsListShape(response[r].body))
                => returned[r].ret = <<>>

\* query_ido has returned the empty list after one GET that was answered
\* with a non-success status and a body holding records.
C3_Witness ==
    \E r \in Requests :
        /\ returned[r].called
        /\ AllConfigPresent
        /\ response[r].kind = "http_error"
        /\ IsItemsShape(response[r].body)
        /\ response[r].body.items.v # <<>>
        /\ Len(gets[r]) = 1
        /\ returned[r].ret = <<>>

\* The request ended, or will end, in the error response of lines 169-173
\* with no call of query_ido, no filtering and no grouping behind it.
EndsInDateError(r) ==
    /\ pc[r] \in {"parse", "done"}
    /\ ~returned[r].called
    /\ gets[r] = <<>>
    /\ records[r] = <<>>
    /\ pc[r] = "done" => result[r] = InvalidDateResponse

\* C4: a sales_report request whose start_date or end_date does not parse
\* as a YYYY-MM-DD date (datetime.strptime raises for "%Y-%m-%d") ends with
\* the error message and an empty summary, without an exception, a remote
\* call, filtering or grouping.
C4_InvalidDateIsError ==
    \A r \in Requests :
        (/\ form[r].handler = "sales_report"
         /\ ~Strptime(form[r].start_date).ok \/ ~Strptime(form[r].end_date).ok)
        => EndsInDateError(r)

\* A request with a good start_date and the end_date 13/40/2026 has ended
\* in the error response.
C4_Witness ==
    \E r \in Requests :
        /\ form[r].handler = "sales_report"
        /\ form[r].start_date = D_2026_01_01
        /\ form[r].end_date = D_13_40_2026
        /\ pc[r] = "done"
        /\ result[r].error = "Invalid date format. Please use YYYY-MM-DD."
        /\ result[r].sales_summary = EmptySummary
        /\ gets[r] = <<>>

\* C5: sales_report never ends in an exception nothing handles: it ends in
\* a rendered summary or in a rendered error message.
C5_NoUnhandledException ==
    \A r \in Requests :
        (form[r].handler = "sales_report" /\ pc[r] = "done")
        => result[r].kind = "rendered"

\* The request has run to its end with valid dates and query_ido returned
\* the empty list.
FallbackRequestDone(r) ==
    /\ form[r].handler = "sales_report"
    /\ pc[r] = "done"
    /\ Strptime(form[r].start_date).ok
    /\ Strptime(form[r].end_date).ok
    /\ returned[r].called
    /\ returned[r].ret = <<>>

\* date1 is later than date2
DateAfter(a, b) ==
    \/ a.y > b.y
    \/ a.y = b.y /\ a.m > b.m
    \/ a.y = b.y /\ a.m = b.m /\ a.d > b.d

\* C6: for valid dates with start_date later than end_date and any
\* group_by, a request whose remote call yields no records renders an empty
\* summary.
C6_StartAfterEndIsEmpty ==
    \A r \in Requests :
        (/\ FallbackRequestDone(r)
         /\ DateAfter(Strptime(form[r].start_date), Strptime(form[r].end_date)))
        => result[r] = SummaryResponse(EmptySummary)

\* A request for 2026-02-01 .. 2026-01-01, the remote failing, has rendered
\* an empty summary.
C6_Witness ==
    \E r \in Requests :
        /\ FallbackRequestDone(r)
        /\ form[r].start_date = D_2026_02_01
        /\ form[r].end_date = D_2026_01_01
        /\ response[r].kind = "transport_error"
        /\ result[r] = SummaryResponse(EmptySummary)

\* The reference group-by-sum over the fallback dataset: the fallback rows
\* by index, their dates, the rows in range, one bucket per truncated date.
FallbackDate(i) == Strptime(DummySalesLiteral[i].TransDate.s)

FallbackInRange(sdt, edt) ==
    { i \in 1..Len(DummySalesLiteral) :
        ~DateAfter(sdt, FallbackDate(i)) /\ ~DateAfter(FallbackDate(i), edt) }

Truncated(dt, group_by) ==
    CASE group_by = "day" -> StrftimeDay(dt)
      [] group_by = "month" -> StrftimeMonth(dt)
      [] OTHER -> StrftimeYear(dt)

RECURSIVE SumAmounts(_)
SumAmounts(S) ==
    IF S = {} THEN 0
    ELSE LET i == CHOOSE j \in S : TRUE
         IN  DummySalesLiteral[i].Amount.n + SumAmounts(S \ {i})

ReferenceSummary(sdt, edt, group_by) ==
    LET rows == FallbackInRange(sdt, edt)
        keys == {Truncated(FallbackDate(i), group_by) : i \in rows}
    IN  [k \in keys |->
           SumAmounts({i \in rows : Truncated(FallbackDate(i), group_by) = k})]

M_2026_01 == <<"2", "0", "2", "6", "-", "0", "1">>

M_2026_02 == <<"2", "0", "2", "6", "-", "0", "2">>

\* C7: when the remote call yields no records, the summary is the reference
\* group-by-sum over the fallback rows in [start_date, end_date] (by day,
\* by month, by year for any other group_by); 2026-01-01..2026-01-02 by day
\* gives {2026-01-01: 1450, 2026-01-02: 125} and the full span by month
\* gives {2026-01: 2375, 2026-02: 300}.
C7_FallbackSummaryIsGroupBySum ==
    \A r \in Requests :
        FallbackRequestDone(r)
        => /\ result[r] =
                SummaryResponse(
                  ReferenceSummary(Strptime(form[r].start_date),
                                   Strptime(form[r].end_date),
                                   form[r].group_by))
           /\ (/\ form[r].start_date = D_2026_01_01
               /\ form[r].end_date = D_2026_01_02
               /\ form[r].group_by = "day")
                => result[r].sales_summary =
                       (D_2026_01_01 :> 1450) @@ (D_2026_01_02 :> 125)
           /\ (/\ form[r].start_date = D_2026_01_01
               /\ form[r].end_date = D_2026_02_01
               /\ form[r].group_by = "month")
                => result[r].sales_summary =
                       (M_2026_01 :> 2375) @@ (M_2026_02 :> 300)

\* A request for 2026-01-01..2026-01-02 by day, the remote failing, has
\* rendered the two buckets 1450 and 125.
C7_Witness ==
    \E r \in Requests :
        /\ FallbackRequestDone(r)
        /\ response[r].kind = "transport_error"
        /\ form[r].start_date = D_2026_01_01
        /\ form[r].end_date = D_2026_01_02
        /\ form[r].group_by = "day"
        /\ result[r].kind = "rendered"
        /\ result[r].sales_summary =
               (D_2026_01_01 :> 1450) @@ (D_2026_01_02 :> 125)

\* The remote rows with InvoiceDate renamed to TransDate: as many rows, in
\* the same order, each with the value of InvoiceDate (if it has one) under
\* TransDate, no InvoiceDate, and its other fields as they were.
IsRenamed(rows, remote) ==
    /\ Len(rows) = Len(remote)
    /\ \A i \in 1..Len(remote) :
          /\ rows[i].InvoiceDate = Missing
          /\ rows[i].TransDate =
                IF remote[i].InvoiceDate # Missing THEN remote[i].InvoiceDate
                ELSE remote[i].TransDate
          /\ rows[i].Type = remote[i].Type
          /\ rows[i].Amount = remote[i].Amount
          /\ rows[i].CustNum = remote[i].CustNum
          /\ rows[i].Item = remote[i].Item

\* The fallback rows in range, in the order of the dataset.
IsFallbackInRange(rows, sdt, edt) ==
    LET idx == FallbackInRange(sdt, edt)
    IN  /\ Len(rows) = Cardinality(idx)
        /\ \A i \in idx :
              rows[Cardinality({j \in idx : j <= i})] = DummySalesLiteral[i]

\* C8: the records sales_report groups are the fallback rows in range
\* exactly when the remote call returned no record; otherwise they are the
\* remote records with InvoiceDate renamed to TransDate, none added from the
\* fallback and none dropped for its date.
C8_GroupedRecords ==
    \A r \in Requests :
        (form[r].handler = "sales_report" /\ pc[r] = "group")
        => IF returned[r].ret = <<>>
           THEN IsFallbackInRange(records[r], start_dt[r], end_dt[r])
           ELSE IsRenamed(records[r], returned[r].ret)

\* A request for 2026-01-01..2026-01-02 is about to group two remote rows,
\* one of them dated 2026-3-15.
C8_Witness ==
    \E r \in Requests :
        /\ form[r].handler = "sales_report"
        /\ pc[r] = "group"
        /\ form[r].start_date = D_2026_01_01
        /\ form[r].end_date = D_2026_01_02
        /\ Len(returned[r].ret) = 2
        /\ Len(records[r]) = 2
        /\ \E i \in 1..2 : records[r][i].TransDate = PyStr(D_2026_3_15)

\* The row's TransDate is there and parses as YYYY-MM-DD.
HasParsedDate(row) ==
    row.TransDate # Missing /\ StrptimeValue(row.TransDate).ok

\* What lines 198-218 end in for the rows and group_by given.
GroupingResult(rows, group_by) ==
    LET g == GroupRows(rows, group_by)
    IN  IF g.exc # "" THEN Raised(g.exc) ELSE SummaryResponse(g.summary)

\* The grouping of the request has run.
GroupingDone(r) ==
    /\ form[r].handler = "sales_report"
    /\ pc[r] = "done"
    /\ returned[r].called

\* C9: a grouped record whose TransDate is missing or does not parse adds
\* nothing to the summary and raises nothing: the request ends as it would
\* with every such record removed from the list, and ends in a rendered
\* summary whenever the amounts of the other records convert.
C9_UnparsedRowsAreSkipped ==
    \A r \in Requests :
        GroupingDone(r)
        => /\ result[r] =
                GroupingResult(SelectSeq(records[r], HasParsedDate),
                               form[r].group_by)
           /\ (\A i \in 1..Len(records[r]) :
                  HasParsedDate(records[r][i])
                  => FloatOf(GetAmount(records[r][i])).exc = "")
                => result[r].kind = "rendered"

\* A request has grouped a record with no date, whose amount does not
\* convert either, next to one that counts, and the summary holds the
\* second alone.
C9_Witness ==
    \E r \in Requests :
        /\ GroupingDone(r)
        /\ Len(records[r]) = 2
        /\ ~HasParsedDate(records[r][1])
        /\ FloatOf(GetAmount(records[r][1])).exc # ""
        /\ HasParsedDate(records[r][2])
        /\ result[r].kind = "rendered"
        /\ result[r].sales_summary # EmptySummary

\* C10: however the steps of concurrent requests interleave, the three
\* configuration values and DUMMY_SALES keep the values the process started
\* with, and a request ends as it would running alone on the same form
\* fields and the same remote response.
C10_RequestsAreIndependent ==
    /\ BASE_URL = environ.SYTELINE_BASE_URL
    /\ MONGOOSE_CONFIG = environ.SYTELINE_CONFIG
    /\ API_TOKEN = environ.SYTELINE_TOKEN
    /\ DUMMY_SALES = DummySalesLiteral
    /\ \A r \in Requests :
          pc[r] = "done"
          => result[r] =
               IF form[r].handler = "sales_report"
               THEN SalesReport(environ.SYTELINE_BASE_URL,
                                environ.SYTELINE_CONFIG,
                                environ.SYTELINE_TOKEN, DummySalesLiteral,
                                form[r].start_date, form[r].end_date,
                                form[r].group_by, response[r])
               ELSE GenericQueryResult(environ.SYTELINE_BASE_URL,
                                       environ.SYTELINE_CONFIG,
                                       environ.SYTELINE_TOKEN, form[r].ido,
                                       form[r].properties,
                                       form[r].filter_expr, form[r].order_by,
                                       response[r])

\* Two sales_report requests are in flight together, one done on the
\* fallback rows of its range while the other is between its steps, having
\* taken the fallback path too.
C10_Witness ==
    \E r1 \in Requests, r2 \in Requests :
        /\ r1 # r2
        /\ form[r1].handler = "sales_report"
        /\ form[r2].handler = "sales_report"
        /\ pc[r1] = "done"
        /\ returned[r1].ret = <<>>
        /\ result[r1].sales_summary # EmptySummary
        /\ pc[r2] = "group"
        /\ returned[r2].ret = <<>>
        /\ form[r1].start_date # form[r2].start_date

=============================================================================
